---- MODULE Spec2Model ----
(***************************************************************************)
(* Model of the registry facade of go-doudou                               *)
(* (framework/registry/node.go): the process-wide membership handle, the   *)
(* broadcast queue variable, the event delegate's service providers, and   *)
(* the pure helpers that build the seed list and the configuration.        *)
(*                                                                         *)
(* Strings are sequences of one-character strings, so that splitting,      *)
(* indexing, integer parsing and formatting are computed, not assumed.     *)
(***************************************************************************)
EXTENDS Integers, Sequences, FiniteSets, TLC

VARIABLES
    \* ---- seed list parsing (seeds, node.go:35-55)
    seedstr,        \* the seed string handed to seeds()
    memPortEnv,     \* the value of the MEM_PORT configuration key
    seedOut,        \* the slice seeds() returned
    seedPc,         \* "in" before the call, "done" after it
    \* ---- the registry facade (node.go:26-28 and the engine behind mlist)
    mlist,          \* the membership handle: 0 is nil, else the engine it refers to
    BroadcastQueue, \* the queue variable: 0 is nil, else the queue it refers to
    allocs,         \* how many queues NewNode has built so far
    engines,        \* per engine: whether Create built it, how often Shutdown was invoked on it
    nodes,          \* the membership table of the engine created last
    ServiceProviders, \* events.ServiceProviders
    spNodes,        \* each service provider's own view (AddNode / RemoveNode)
    ret,            \* what the last facade call returned
    \* ---- the weight configuration (newConf, node.go:231-250; NewNode, node.go:311-326)
    weightEnv,      \* the value of the MEM_WEIGHT configuration key
    weightIntervalEnv, \* the value of the MEM_WEIGHT_INTERVAL configuration key
    defaultWeightInterval, \* config.DefaultGddMemWeightInterval, in milliseconds
    cfgWeightInterval, \* cfg.WeightInterval as newConf left it, in milliseconds
    metaWeight,     \* the Weight of the local NodeMeta
    confPc,         \* "env" before NewNode built its configuration, "done" after
    \* ---- goroutines calling the facade concurrently
    pc,             \* where each goroutine is in the function it runs
    hnd,            \* the handle each goroutine loaded at its nil check
    snap,           \* the Members() slice RegisterServiceProvider iterates over
    arg,            \* the service provider RegisterServiceProvider was handed
    nilDeref,       \* a method was called through a nil handle
    \* ---- the timeouts of the configuration (newConf, node.go:157-261)
    durKey,         \* the configuration field looked at
    durEnv,         \* the value of that field's configuration key
    cfgDuration,    \* the field as newConf left it, in milliseconds
    durPc,          \* "env" before newConf ran, "done" after
    \* ---- the helpers that read a node's Meta (node.go:102-110, 397-460)
    metaNode,       \* the *memberlist.Node the helpers are handed
    baseUrlOut,     \* what BaseUrl returned
    metaWeightOut,  \* what MetaWeight returned
    svcNameOut,     \* what SvcName returned
    infoOut,        \* what Info returned
    \* ---- the broadcast queues NewNode builds (node.go:332-345)
    queue,          \* the items (key, transmit count) of the queue followed
    followed,       \* which queue is followed: the one the followed-th NewNode built
    retransmitMult  \* mconf.RetransmitMult

seedVars == <<seedstr, memPortEnv, seedOut, seedPc>>

confVars == <<weightEnv, weightIntervalEnv, defaultWeightInterval,
              cfgWeightInterval, metaWeight, confPc>>

threadVars == <<pc, hnd, snap, arg, nilDeref>>

durVars == <<durKey, durEnv, cfgDuration, durPc>>

metaVars == <<metaNode, baseUrlOut, metaWeightOut, svcNameOut, infoOut>>

queueVars == <<queue, followed, retransmitMult>>

otherVars == <<durVars, metaVars, queueVars>>

facadeVars == <<mlist, BroadcastQueue, allocs, engines, nodes, ServiceProviders, spNodes>>

\* What an action of the facade, run on its own, leaves alone.
sideVars == <<seedVars, confVars, threadVars, otherVars>>

vars == <<seedstr, memPortEnv, seedOut, seedPc,
          mlist, BroadcastQueue, allocs, engines, nodes, ServiceProviders, spNodes, ret,
          weightEnv, weightIntervalEnv, defaultWeightInterval,
          cfgWeightInterval, metaWeight, confPc,
          pc, hnd, snap, arg, nilDeref,
          durKey, durEnv, cfgDuration, durPc,
          metaNode, baseUrlOut, metaWeightOut, svcNameOut, infoOut,
          queue, followed, retransmitMult>>

(***************************************************************************)
(* Bounds of the model.                                                    *)
(***************************************************************************)
MaxSeedLen == 4
MaxEngines == 2      \* NewNode calls that get as far as building a queue
NumRemote == 2       \* remote nodes that may join the cluster
NumProviders == 1    \* service providers that may be registered
NumThreads == 2      \* goroutines calling the facade at the same time
MaxWeightLen == 2    \* length of the MEM_WEIGHT value
MaxDurLen == 3       \* length of the MEM_WEIGHT_INTERVAL value
NumKeys == 1         \* invalidation keys of the broadcasts

(***************************************************************************)
(* Strings.                                                                *)
(***************************************************************************)
Digits == {"0", "1", "2", "3", "4", "5", "6", "7", "8", "9"}

DigitVal(c) ==
    CASE c = "0" -> 0 [] c = "1" -> 1 [] c = "2" -> 2 [] c = "3" -> 3
      [] c = "4" -> 4 [] c = "5" -> 5 [] c = "6" -> 6 [] c = "7" -> 7
      [] c = "8" -> 8 [] c = "9" -> 9

DigitChar(d) ==
    CASE d = 0 -> "0" [] d = 1 -> "1" [] d = 2 -> "2" [] d = 3 -> "3"
      [] d = 4 -> "4" [] d = 5 -> "5" [] d = 6 -> "6" [] d = 7 -> "7"
      [] d = 8 -> "8" [] d = 9 -> "9"

\* All strings over alphabet A of length at most n.
StringsUpTo(A, n) == UNION {[1..k -> A] : k \in 0..n}

\* s[from:] and s[:to] of Go, on 0-based byte offsets.
SliceFrom(s, from) == SubSeq(s, from + 1, Len(s))
SliceTo(s, to) == SubSeq(s, 1, to)

\* strings.LastIndex(s, c): the 0-based offset of the last c in s, or -1.
LastIndex(s, c) ==
    LET hits == {i \in 1..Len(s) : s[i] = c}
    IN  IF hits = {} THEN -1
        ELSE (CHOOSE i \in hits : \A j \in hits : j <= i) - 1

\* The 0-based offset of the first c in s, or -1.
FirstIndex(s, c) ==
    LET hits == {i \in 1..Len(s) : s[i] = c}
    IN  IF hits = {} THEN -1
        ELSE (CHOOSE i \in hits : \A j \in hits : i <= j) - 1

\* strings.Split(s, sep) for a one-character separator.
RECURSIVE Split(_, _)
Split(s, sep) ==
    LET i == FirstIndex(s, sep)
    IN  IF i < 0 THEN <<s>>
        ELSE <<SliceTo(s, i)>> \o Split(SliceFrom(s, i + 1), sep)

\* The value of a non-empty sequence of decimal digits.
RECURSIVE DigitsVal(_)
DigitsVal(s) ==
    IF Len(s) = 0 THEN 0
    ELSE 10 * DigitsVal(SliceTo(s, Len(s) - 1)) + DigitVal(s[Len(s)])

AllDigits(s) == Len(s) > 0 /\ \A i \in 1..Len(s) : s[i] \in Digits

\* strconv.Atoi: an optional sign followed by decimal digits.
Atoi(s) ==
    IF Len(s) > 0 /\ s[1] \in {"+", "-"}
    THEN IF AllDigits(SliceFrom(s, 1))
         THEN [ok |-> TRUE,
               val |-> IF s[1] = "-" THEN 0 - DigitsVal(SliceFrom(s, 1))
                       ELSE DigitsVal(SliceFrom(s, 1))]
         ELSE [ok |-> FALSE, val |-> 0]
    ELSE IF AllDigits(s) THEN [ok |-> TRUE, val |-> DigitsVal(s)]
         ELSE [ok |-> FALSE, val |-> 0]

\* cast.ToIntE on a string: the integer it denotes, or an error.
ToIntE(s) == Atoi(s)

\* fmt's %d of a non-negative integer.
RECURSIVE FormatNat(_)
FormatNat(n) ==
    IF n < 10 THEN <<DigitChar(n)>>
    ELSE FormatNat(n \div 10) \o <<DigitChar(n % 10)>>

\* fmt's %d.
FormatInt(n) == IF n < 0 THEN <<"-">> \o FormatNat(0 - n) ELSE FormatNat(n)

\* stringutils.IsEmpty / IsNotEmpty (the alphabets used hold no white space).
IsEmpty(s) == Len(s) = 0
IsNotEmpty(s) == ~IsEmpty(s)

(***************************************************************************)
(* Seed list parsing.                                                      *)
(***************************************************************************)
DefaultGddMemPort == 7946

\* The port the configuration binds (newConf, node.go:265-270).
MemPortOf(env) ==
    IF ToIntE(env).ok THEN ToIntE(env).val ELSE DefaultGddMemPort

\* One iteration of the loop of seeds() (node.go:40-53): the entry as rewritten.
SeedEntry(seed) ==
    LET li == LastIndex(seed, ":")
    IN  IF li < 0
        THEN seed \o <<":">> \o FormatInt(DefaultGddMemPort)
        ELSE IF Len(seed) > li + 1
             THEN IF ~ToIntE(SliceFrom(seed, li + 1)).ok
                  THEN SliceTo(seed, li) \o <<":">> \o FormatInt(DefaultGddMemPort)
                  ELSE SliceTo(seed, li) \o <<":">>
                         \o FormatInt(ToIntE(SliceFrom(seed, li + 1)).val)
             ELSE seed

\* seeds(seedstr) (node.go:35-55); nil is the empty sequence.
seeds(s) ==
    IF IsEmpty(s) THEN <<>>
    ELSE LET parts == Split(s, ",")
         IN  [i \in 1..Len(parts) |-> SeedEntry(parts[i])]

(***************************************************************************)
(* The membership engine behind the handle (framework/internal/memberlist, *)
(* modelled from the specification's sections 3, 4.6, 4.8, 4.9 and 4.10).  *)
(***************************************************************************)
LocalName == 0
RemoteNames == 1..NumRemote
Providers == 1..NumProviders
EngineIds == 1..MaxEngines
Threads == 1..NumThreads

NoEngine == [created |-> FALSE, shutdowns |-> 0]
NoRet == [op |-> "none", err |-> "none", val |-> <<>>]

Range(f) == {f[i] : i \in DOMAIN f}

NamesOf(tbl) == {tbl[i].name : i \in DOMAIN tbl}
IndexOf(tbl, n) == CHOOSE i \in DOMAIN tbl : tbl[i].name = n

DeadOrLeft(node) == node.state \in {"Dead", "Left"}

\* Memberlist.Members(): every member that is neither Dead nor Left.
Members(tbl) == SelectSeq(tbl, LAMBDA node : ~DeadOrLeft(node))

\* Memberlist.LocalNode().
LocalNodeOf(tbl) == tbl[IndexOf(tbl, LocalName)]

\* The event delegate: NotifyJoin -> AddNode, NotifyLeave -> RemoveNode, on
\* every registered service provider.
NotifyJoin(views, sps, n) ==
    [sp \in Providers |-> IF sp \in Range(sps) THEN views[sp] \cup {n} ELSE views[sp]]
NotifyLeave(views, sps, n) ==
    [sp \in Providers |-> IF sp \in Range(sps) THEN views[sp] \ {n} ELSE views[sp]]

SetState(tbl, n, st) == [tbl EXCEPT ![IndexOf(tbl, n)].state = st]

Running == mlist # 0 /\ engines[mlist].created /\ engines[mlist].shutdowns = 0

\* A remote node is observed for the first time, or again after Dead or Left.
EngineJoin(n) ==
    /\ Running
    /\ \/ /\ n \notin NamesOf(nodes)
          /\ nodes' = Append(nodes, [name |-> n, state |-> "Alive"])
       \/ /\ n \in NamesOf(nodes)
          /\ DeadOrLeft(nodes[IndexOf(nodes, n)])
          /\ nodes' = SetState(nodes, n, "Alive")
    /\ spNodes' = NotifyJoin(spNodes, ServiceProviders, n)
    /\ UNCHANGED <<mlist, BroadcastQueue, allocs, engines, ServiceProviders, ret, sideVars>>

\* Alive -> Suspect: a probe and its indirect probes failed.
EngineSuspect(n) ==
    /\ Running
    /\ n \in NamesOf(nodes)
    /\ nodes[IndexOf(nodes, n)].state = "Alive"
    /\ nodes' = SetState(nodes, n, "Suspect")
    /\ UNCHANGED <<mlist, BroadcastQueue, allocs, engines, ServiceProviders, spNodes, ret, sideVars>>

\* Suspect -> Alive: the subject refuted the suspicion.
EngineRefute(n) ==
    /\ Running
    /\ n \in NamesOf(nodes)
    /\ nodes[IndexOf(nodes, n)].state = "Suspect"
    /\ nodes' = SetState(nodes, n, "Alive")
    /\ UNCHANGED <<mlist, BroadcastQueue, allocs, engines, ServiceProviders, spNodes, ret, sideVars>>

\* Suspect -> Dead: the suspicion timer expired.
EngineDead(n) ==
    /\ Running
    /\ n \in NamesOf(nodes)
    /\ nodes[IndexOf(nodes, n)].state = "Suspect"
    /\ nodes' = SetState(nodes, n, "Dead")
    /\ spNodes' = NotifyLeave(spNodes, ServiceProviders, n)
    /\ UNCHANGED <<mlist, BroadcastQueue, allocs, engines, ServiceProviders, ret, sideVars>>

\* Alive/Suspect -> Left: the subject's Leave broadcast arrived.
EngineLeft(n) ==
    /\ Running
    /\ n \in NamesOf(nodes)
    /\ nodes[IndexOf(nodes, n)].state \in {"Alive", "Suspect"}
    /\ nodes' = SetState(nodes, n, "Left")
    /\ spNodes' = NotifyLeave(spNodes, ServiceProviders, n)
    /\ UNCHANGED <<mlist, BroadcastQueue, allocs, engines, ServiceProviders, ret, sideVars>>

\* Dead -> removed: the dead node is reclaimed.
EngineReclaim(n) ==
    /\ Running
    /\ n \in NamesOf(nodes)
    /\ nodes[IndexOf(nodes, n)].state = "Dead"
    /\ nodes' = SelectSeq(nodes, LAMBDA node : node.name # n)
    /\ UNCHANGED <<mlist, BroadcastQueue, allocs, engines, ServiceProviders, spNodes, ret, sideVars>>

EngineNext ==
    \E n \in RemoteNames :
        \/ EngineJoin(n)
        \/ EngineSuspect(n)
        \/ EngineRefute(n)
        \/ EngineDead(n)
        \/ EngineLeft(n)
        \/ EngineReclaim(n)

\* Memberlist.Leave(timeout): the local node is marked Left and the Left state
\* is broadcast; the wait for propagation may time out.
EngineLeave(tbl) ==
    IF LocalNodeOf(tbl).state \in {"Alive", "Suspect"}
    THEN SetState(tbl, LocalName, "Left") ELSE tbl

(***************************************************************************)
(* The facade (node.go), one action per exported function.                 *)
(***************************************************************************)
LeaveOutcomes == {"ok", "timeout", "error"}

DefaultGddServiceName == <<>>
DefaultGddMemSeed == <<>>

ServiceEnvs == {<<>>, <<"s">>}
SeedEnvs == {<<>>, <<"h">>, <<"h", ":", "8">>}

\* The service name NewNode uses (node.go:289-292).
ServiceOf(env) == IF IsNotEmpty(env) THEN env ELSE DefaultGddServiceName

\* The seed list join() hands to the engine (node.go:61-65).
SeedListOf(env) == seeds(IF IsNotEmpty(env) THEN env ELSE DefaultGddMemSeed)

\* A NewNode that publishes its queue before it validates the service name.
NewNodeConfigError_QueueFirst ==
    /\ ret' = [op |-> "NewNode", err |-> "ConfigError", val |-> <<>>]
    /\ allocs' = allocs + 1
    /\ BroadcastQueue' = allocs + 1
    /\ UNCHANGED <<mlist, engines, nodes, ServiceProviders, spNodes>>

\* NewNode returns before it builds anything (node.go:293-295).
NewNodeConfigError ==
    /\ ret' = [op |-> "NewNode", err |-> "ConfigError", val |-> <<>>]
    /\ UNCHANGED facadeVars

\* memberlist.Create failed (node.go:341, 348-350): the queue variable is set
\* and the handle is assigned what Create returned, nil.
NewNodeCreateError ==
    /\ allocs' = allocs + 1
    /\ BroadcastQueue' = allocs + 1
    /\ mlist' = 0
    /\ ret' = [op |-> "NewNode", err |-> "TransportError", val |-> <<>>]
    /\ UNCHANGED <<engines, nodes, ServiceProviders, spNodes>>

\* join() failed (node.go:351-354): the engine is shut down, the handle stays.
NewNodeJoinError ==
    /\ allocs' = allocs + 1
    /\ BroadcastQueue' = allocs + 1
    /\ mlist' = allocs + 1
    /\ engines' = [engines EXCEPT ![allocs + 1] = [created |-> TRUE, shutdowns |-> 1]]
    /\ nodes' = <<[name |-> LocalName, state |-> "Alive"]>>
    /\ spNodes' = NotifyJoin(spNodes, ServiceProviders, LocalName)
    /\ ret' = [op |-> "NewNode", err |-> "JoinError", val |-> <<>>]
    /\ UNCHANGED ServiceProviders

\* NewNode ran to its end (node.go:341-359).
NewNodeOk ==
    /\ allocs' = allocs + 1
    /\ BroadcastQueue' = allocs + 1
    /\ mlist' = allocs + 1
    /\ engines' = [engines EXCEPT ![allocs + 1] = [created |-> TRUE, shutdowns |-> 0]]
    /\ nodes' = <<[name |-> LocalName, state |-> "Alive"]>>
    /\ spNodes' = NotifyJoin(spNodes, ServiceProviders, LocalName)
    /\ ret' = [op |-> "NewNode", err |-> "none", val |-> <<>>]
    /\ UNCHANGED ServiceProviders

\* A join() that hands an empty seed list to the engine instead of returning.
joinFails_NoEmptyCheck(seedList, joinOk) == ~joinOk

\* join() (node.go:57-76): whether it returns an error, given the seed list and
\* whether the engine's Join reached a seed.
joinFails(seedList, joinOk) == Len(seedList) # 0 /\ ~joinOk

\* NewNode (node.go:287-360). createOk and joinOk are the engine's answers.
NewNode(serviceEnv, seedEnv, createOk, joinOk) ==
    /\ ret = NoRet
    /\ allocs < MaxEngines
    /\ IF IsEmpty(ServiceOf(serviceEnv)) THEN NewNodeConfigError
       ELSE IF ~createOk THEN NewNodeCreateError
       ELSE IF joinFails(SeedListOf(seedEnv), joinOk) THEN NewNodeJoinError
       ELSE NewNodeOk
    /\ UNCHANGED sideVars

\* Shutdown (node.go:363-369).
Shutdown ==
    /\ ret = NoRet
    /\ IF mlist # 0
       THEN /\ engines' = [engines EXCEPT ![mlist].shutdowns = @ + 1]
            /\ mlist' = 0
       ELSE UNCHANGED <<engines, mlist>>
    /\ ret' = [op |-> "Shutdown", err |-> "none", val |-> <<>>]
    /\ UNCHANGED <<BroadcastQueue, allocs, nodes, ServiceProviders, spNodes, sideVars>>

\* A Leave that releases the handle as Shutdown does.
LeaveHandle_Release(h) == 0

\* What Leave does to the handle (node.go:372-377): nothing.
LeaveHandle(h) == h

\* What Leave reports (node.go:374): the engine's answer is assigned to _.
LeaveError(outcome) == "none"

\* Leave (node.go:372-377); the engine's answer (ok, timeout, error) is dropped.
Leave(outcome) ==
    /\ ret = NoRet
    /\ IF mlist # 0
       THEN /\ nodes' = EngineLeave(nodes)
            /\ spNodes' = IF nodes' # nodes
                          THEN NotifyLeave(spNodes, ServiceProviders, LocalName)
                          ELSE spNodes
       ELSE UNCHANGED <<nodes, spNodes>>
    /\ mlist' = LeaveHandle(mlist)
    /\ ret' = [op |-> "Leave", err |-> LeaveError(outcome), val |-> <<>>]
    /\ UNCHANGED <<BroadcastQueue, allocs, engines, ServiceProviders, sideVars>>

\* An AllNodes that copies the whole table instead of Members().
AllNodesResult_WholeTable(tbl) == tbl

\* The slice AllNodes builds from the handle's table (node.go:83-87).
AllNodesResult(tbl) == Members(tbl)

\* AllNodes (node.go:79-88).
AllNodes ==
    /\ ret = NoRet
    /\ ret' = IF mlist = 0
              THEN [op |-> "AllNodes", err |-> "StateError", val |-> <<>>]
              ELSE [op |-> "AllNodes", err |-> "none", val |-> AllNodesResult(nodes)]
    /\ UNCHANGED <<facadeVars, sideVars>>

\* LocalNode (node.go:472-477): nil when there is no handle.
LocalNode ==
    /\ ret = NoRet
    /\ ret' = IF mlist = 0
              THEN [op |-> "LocalNode", err |-> "nil", val |-> <<>>]
              ELSE [op |-> "LocalNode", err |-> "none", val |-> <<LocalNodeOf(nodes)>>]
    /\ UNCHANGED <<facadeVars, sideVars>>

\* The caller takes what the call returned.
Return ==
    /\ ret # NoRet
    /\ ret' = NoRet
    /\ UNCHANGED <<facadeVars, sideVars>>

FacadeIdle ==
    /\ mlist = 0
    /\ BroadcastQueue = 0
    /\ allocs = 0
    /\ engines = [e \in EngineIds |-> NoEngine]
    /\ nodes = <<>>
    /\ ServiceProviders = <<>>
    /\ spNodes = [sp \in Providers |-> {}]
    /\ ret = NoRet

SeedIdle ==
    /\ seedstr = <<>>
    /\ memPortEnv = <<>>
    /\ seedOut = <<>>
    /\ seedPc = "in"

ConfIdle ==
    /\ weightEnv = <<>>
    /\ weightIntervalEnv = <<>>
    /\ defaultWeightInterval = 0
    /\ cfgWeightInterval = 0
    /\ metaWeight = 0
    /\ confPc = "env"

ThreadsIdle ==
    /\ pc = [t \in Threads |-> "idle"]
    /\ hnd = [t \in Threads |-> 0]
    /\ snap = [t \in Threads |-> <<>>]
    /\ arg = [t \in Threads |-> 0]
    /\ nilDeref = FALSE

DurIdle ==
    /\ durKey = "none"
    /\ durEnv = <<>>
    /\ cfgDuration = 0
    /\ durPc = "env"

\* The values of a JSON member: a string, a number, or no such member.
JStr(str) == [t |-> "str", s |-> str, n |-> 0]
JNum(num) == [t |-> "num", s |-> <<>>, n |-> num]
JAbsent == [t |-> "absent", s |-> <<>>, n |-> 0]

NoDoc == [service |-> JAbsent, routeRootPath |-> JAbsent, port |-> JAbsent, weight |-> JAbsent]

NotCalled == [done |-> FALSE, err |-> FALSE, str |-> <<>>, num |-> 0]

NoInfo ==
    [done |-> FALSE, SvcName |-> <<>>, Hostname |-> <<>>, BaseUrl |-> <<>>, Status |-> <<>>,
     Host |-> <<>>, SvcPort |-> 0, MemPort |-> 0]

MetaIdle ==
    /\ metaNode = [Name |-> <<>>, Addr |-> <<>>, Port |-> 0, State |-> "Alive",
                   Meta |-> [kind |-> "empty", meta |-> NoDoc]]
    /\ baseUrlOut = NotCalled
    /\ metaWeightOut = NotCalled
    /\ svcNameOut = NotCalled
    /\ infoOut = NoInfo

QueueIdle ==
    /\ queue = {}
    /\ followed = 0
    /\ retransmitMult = 0

OthersIdle == DurIdle /\ MetaIdle /\ QueueIdle

Init == FacadeIdle /\ SeedIdle /\ ConfIdle /\ ThreadsIdle /\ OthersIdle

Next ==
    \/ \E s \in ServiceEnvs, sd \in SeedEnvs, c \in BOOLEAN, j \in BOOLEAN : NewNode(s, sd, c, j)
    \/ Shutdown
    \/ \E o \in LeaveOutcomes : Leave(o)
    \/ AllNodes
    \/ LocalNode
    \/ Return
    \/ (ret = NoRet /\ EngineNext)

\* The facade called from one goroutine, one call at a time, while the engine
\* runs.  RegisterServiceProvider writes only events.ServiceProviders and the
\* provider's own view, which none of these calls reads; it is modelled step by
\* step under ConcSpec.
Spec == Init /\ [][Next]_vars

(***************************************************************************)
(* The seed list specification: seeds() applied to every short string.     *)
(***************************************************************************)
SeedAlphabet == {"h", ":", ",", "8"}
MemPortEnvs == {<<>>, <<"8">>, <<"h">>}

SeedInit ==
    /\ seedstr \in StringsUpTo(SeedAlphabet, MaxSeedLen)
    /\ memPortEnv \in MemPortEnvs
    /\ seedOut = <<>>
    /\ seedPc = "in"
    /\ FacadeIdle /\ ConfIdle /\ ThreadsIdle /\ OthersIdle

CallSeeds ==
    /\ seedPc = "in"
    /\ seedOut' = seeds(seedstr)
    /\ seedPc' = "done"
    /\ UNCHANGED <<seedstr, memPortEnv>>
    /\ UNCHANGED <<facadeVars, ret, confVars, threadVars, otherVars>>

SeedNext == CallSeeds

SeedSpec == SeedInit /\ [][SeedNext]_vars

(***************************************************************************)
(* C9: every entry of the seed string becomes host:port, the port being    *)
(* the entry's own when it has one that parses as an integer and the       *)
(* configured membership port (MEM_PORT) otherwise; an empty seed string   *)
(* yields no seeds.                                                        *)
(***************************************************************************)
ClaimedSeedEntry(seed, memport) ==
    LET li == LastIndex(seed, ":")
        host == IF li < 0 THEN seed ELSE SliceTo(seed, li)
        own == IF li < 0 THEN [ok |-> FALSE, val |-> 0]
               ELSE ToIntE(SliceFrom(seed, li + 1))
    IN  host \o <<":">> \o FormatInt(IF own.ok THEN own.val ELSE memport)

SeedsAsClaimed ==
    seedPc = "done" =>
        IF Len(seedstr) = 0 THEN seedOut = <<>>
        ELSE LET parts == Split(seedstr, ",")
             IN  seedOut = [i \in 1..Len(parts) |->
                              ClaimedSeedEntry(parts[i], MemPortOf(memPortEnv))]

(***************************************************************************)
(* The facade called from several goroutines.  The functions take no lock, *)
(* so each step below is one access to the shared variables; between two   *)
(* steps of a goroutine the others and the engine may run.  Reading mlist  *)
(* while another goroutine writes it is a data race: the call that follows *)
(* the nil check uses either the handle loaded at the check or the handle  *)
(* loaded again.                                                           *)
(***************************************************************************)
Alive == ~nilDeref

SetPc(t, l) == pc' = [pc EXCEPT ![t] = l]

\* The nil check that opens AllNodes, LocalNode, Leave, Shutdown and
\* RegisterServiceProvider (node.go:80, 473, 373, 364, 463): next is where the
\* function goes on when the handle is not nil; it returns when it is.
NilCheck(t, next) ==
    /\ Alive
    /\ pc[t] = "idle"
    /\ mlist # 0
    /\ SetPc(t, next)
    /\ hnd' = [hnd EXCEPT ![t] = mlist]

\* The handles a method call after the check may go through.
Loaded(t) == {hnd[t], mlist}

\* The call through a nil handle.
Panic(t) ==
    /\ nilDeref' = TRUE
    /\ SetPc(t, "panicked")

AllNodesCheck(t) ==
    /\ NilCheck(t, "an_use")
    /\ UNCHANGED <<facadeVars, ret, snap, arg, nilDeref, seedVars, confVars, otherVars>>

\* mlist.Members() (node.go:84).
AllNodesUse(t) ==
    /\ Alive
    /\ pc[t] = "an_use"
    /\ \E h \in Loaded(t) :
         IF h = 0 THEN Panic(t) ELSE SetPc(t, "idle") /\ UNCHANGED nilDeref
    /\ UNCHANGED <<facadeVars, ret, hnd, snap, arg, seedVars, confVars, otherVars>>

LocalNodeCheck(t) ==
    /\ NilCheck(t, "ln_use")
    /\ UNCHANGED <<facadeVars, ret, snap, arg, nilDeref, seedVars, confVars, otherVars>>

\* mlist.LocalNode() (node.go:476).
LocalNodeUse(t) ==
    /\ Alive
    /\ pc[t] = "ln_use"
    /\ \E h \in Loaded(t) :
         IF h = 0 THEN Panic(t) ELSE SetPc(t, "idle") /\ UNCHANGED nilDeref
    /\ UNCHANGED <<facadeVars, ret, hnd, snap, arg, seedVars, confVars, otherVars>>

LeaveCheck(t) ==
    /\ NilCheck(t, "lv_use")
    /\ UNCHANGED <<facadeVars, ret, snap, arg, nilDeref, seedVars, confVars, otherVars>>

\* mlist.Leave(timeout) (node.go:374).
LeaveUse(t) ==
    /\ Alive
    /\ pc[t] = "lv_use"
    /\ \E h \in Loaded(t) :
         IF h = 0
         THEN Panic(t) /\ UNCHANGED <<nodes, spNodes>>
         ELSE /\ SetPc(t, "idle")
              /\ nodes' = EngineLeave(nodes)
              /\ spNodes' = IF nodes' # nodes
                            THEN NotifyLeave(spNodes, ServiceProviders, LocalName)
                            ELSE spNodes
              /\ UNCHANGED nilDeref
    /\ UNCHANGED <<mlist, BroadcastQueue, allocs, engines, ServiceProviders,
                   ret, hnd, snap, arg, seedVars, confVars, otherVars>>

ShutdownCheck(t) ==
    /\ NilCheck(t, "sd_use")
    /\ UNCHANGED <<facadeVars, ret, snap, arg, nilDeref, seedVars, confVars, otherVars>>

\* mlist.Shutdown() (node.go:365).
ShutdownUse(t) ==
    /\ Alive
    /\ pc[t] = "sd_use"
    /\ \E h \in Loaded(t) :
         IF h = 0
         THEN Panic(t) /\ UNCHANGED engines
         ELSE /\ SetPc(t, "sd_clear")
              /\ engines' = [engines EXCEPT ![h].shutdowns = @ + 1]
              /\ UNCHANGED nilDeref
    /\ UNCHANGED <<mlist, BroadcastQueue, allocs, nodes, ServiceProviders, spNodes,
                   ret, hnd, snap, arg, seedVars, confVars, otherVars>>

\* mlist = nil (node.go:366).
ShutdownClear(t) ==
    /\ Alive
    /\ pc[t] = "sd_clear"
    /\ mlist' = 0
    /\ SetPc(t, "idle")
    /\ UNCHANGED <<BroadcastQueue, allocs, engines, nodes, ServiceProviders, spNodes,
                   ret, hnd, snap, arg, nilDeref, seedVars, confVars, otherVars>>

\* No goroutine is registering sp, and sp is not registered yet.
Unregistered(sp) ==
    /\ sp \notin Range(ServiceProviders)
    /\ \A t \in Threads : arg[t] # sp

RegisterCheck(t, sp) ==
    /\ Unregistered(sp)
    /\ NilCheck(t, "rsp_members")
    /\ arg' = [arg EXCEPT ![t] = sp]
    /\ UNCHANGED <<facadeVars, ret, snap, nilDeref, seedVars, confVars, otherVars>>

\* mlist.Members(), the slice the loop ranges over (node.go:466).
RegisterMembers(t) ==
    /\ Alive
    /\ pc[t] = "rsp_members"
    /\ \E h \in Loaded(t) :
         IF h = 0
         THEN Panic(t) /\ UNCHANGED snap
         ELSE /\ SetPc(t, "rsp_seed")
              /\ snap' = [snap EXCEPT ![t] = Members(nodes)]
              /\ UNCHANGED nilDeref
    /\ UNCHANGED <<facadeVars, ret, hnd, arg, seedVars, confVars, otherVars>>

\* The loop: sp.AddNode(node) for every node of the slice (node.go:466-468).
RegisterSeed(t) ==
    /\ Alive
    /\ pc[t] = "rsp_seed"
    /\ spNodes' = [spNodes EXCEPT ![arg[t]] = @ \cup NamesOf(snap[t])]
    /\ SetPc(t, "rsp_append")
    /\ UNCHANGED <<mlist, BroadcastQueue, allocs, engines, nodes, ServiceProviders,
                   ret, hnd, snap, arg, nilDeref, seedVars, confVars, otherVars>>

\* events.ServiceProviders = append(events.ServiceProviders, sp) (node.go:469).
RegisterAppend(t) ==
    /\ Alive
    /\ pc[t] = "rsp_append"
    /\ ServiceProviders' = Append(ServiceProviders, arg[t])
    /\ SetPc(t, "idle")
    /\ snap' = [snap EXCEPT ![t] = <<>>]
    /\ UNCHANGED <<mlist, BroadcastQueue, allocs, engines, nodes, spNodes,
                   ret, hnd, arg, nilDeref, seedVars, confVars, otherVars>>

\* The process starts its node once, before the goroutines call the facade.
StartNode ==
    /\ allocs = 0
    /\ \E s \in ServiceEnvs, sd \in SeedEnvs, c \in BOOLEAN, j \in BOOLEAN : NewNode(s, sd, c, j)

ThreadNext ==
    \E t \in Threads :
        \/ AllNodesCheck(t)
        \/ AllNodesUse(t)
        \/ LocalNodeCheck(t)
        \/ LocalNodeUse(t)
        \/ LeaveCheck(t)
        \/ LeaveUse(t)
        \/ ShutdownCheck(t)
        \/ ShutdownUse(t)
        \/ ShutdownClear(t)
        \/ \E sp \in Providers : RegisterCheck(t, sp)
        \/ RegisterMembers(t)
        \/ RegisterSeed(t)
        \/ RegisterAppend(t)

ConcNext ==
    \/ StartNode
    \/ Return
    \/ ThreadNext
    \/ (Alive /\ EngineNext)

ConcSpec == Init /\ [][ConcNext]_vars

(***************************************************************************)
(* Durations, in milliseconds.                                             *)
(***************************************************************************)
Millisecond == 1
Second == 1000
Minute == 60000

DurationUnits == {<<"m", "s">>, <<"s">>, <<"m">>}

UnitValue(u) ==
    CASE u = <<"m", "s">> -> Millisecond
      [] u = <<"s">> -> Second
      [] u = <<"m">> -> Minute

\* The length of the longest prefix of s made of digits (digit = TRUE) or of
\* other characters (digit = FALSE).
RECURSIVE RunLen(_, _)
RunLen(s, digit) ==
    IF Len(s) = 0 \/ ((s[1] \in Digits) # digit) THEN 0
    ELSE 1 + RunLen(SliceFrom(s, 1), digit)

\* The body of time.ParseDuration's loop: one or more <digits><unit> groups.
RECURSIVE ParseGroups(_)
ParseGroups(s) ==
    LET d == RunLen(s, TRUE)
        u == RunLen(SliceFrom(s, d), FALSE)
        unit == SubSeq(s, d + 1, d + u)
        rest == SliceFrom(s, d + u)
    IN  IF d = 0 \/ unit \notin DurationUnits THEN [ok |-> FALSE, val |-> 0]
        ELSE IF Len(rest) = 0
             THEN [ok |-> TRUE, val |-> DigitsVal(SliceTo(s, d)) * UnitValue(unit)]
             ELSE LET r == ParseGroups(rest)
                  IN  [ok |-> r.ok,
                       val |-> IF r.ok
                               THEN DigitsVal(SliceTo(s, d)) * UnitValue(unit) + r.val
                               ELSE 0]

\* time.ParseDuration on strings without a fraction: "0", or an optional sign
\* and a sequence of <digits><unit> groups.
ParseDuration(s) ==
    LET signed == Len(s) > 0 /\ s[1] \in {"+", "-"}
        body == IF signed THEN SliceFrom(s, 1) ELSE s
        g == ParseGroups(body)
    IN  IF body = <<"0">> THEN [ok |-> TRUE, val |-> 0]
        ELSE IF Len(body) = 0 THEN [ok |-> FALSE, val |-> 0]
        ELSE [ok |-> g.ok, val |-> IF signed /\ s[1] = "-" THEN 0 - g.val ELSE g.val]

(***************************************************************************)
(* The weight configuration.                                               *)
(***************************************************************************)
DefaultGddMemWeight == 0

\* The weight both newConf (node.go:232-235) and NewNode (node.go:311-314) read.
ConfiguredWeight(env) ==
    IF ToIntE(env).ok THEN ToIntE(env).val ELSE DefaultGddMemWeight

\* A newConf that also pins a weight of 0.
IsPinned_OrZero(weight) == weight >= 0

\* The test newConf makes on the weight (node.go:236).
IsPinned(weight) == weight > 0

\* cfg.WeightInterval as newConf computes it (node.go:236-250).
WeightIntervalOf(wEnv, wiEnv, dflt) ==
    IF IsPinned(ConfiguredWeight(wEnv)) THEN 0
    ELSE IF IsNotEmpty(wiEnv)
         THEN IF Atoi(wiEnv).ok THEN Atoi(wiEnv).val * Millisecond
              ELSE IF ParseDuration(wiEnv).ok THEN ParseDuration(wiEnv).val
              ELSE dflt
         ELSE dflt

\* The Weight NewNode puts in the local NodeMeta (node.go:311-314, 325).
NodeMetaWeight(wEnv) == ConfiguredWeight(wEnv)

WeightAlphabet == {"0", "3", "-", "x"}
DurationAlphabet == {"5", "s", "m", "x"}
DefaultIntervals == {0, 5 * Second}

ConfInit ==
    /\ weightEnv \in StringsUpTo(WeightAlphabet, MaxWeightLen)
    /\ weightIntervalEnv \in StringsUpTo(DurationAlphabet, MaxDurLen)
    /\ defaultWeightInterval \in DefaultIntervals
    /\ cfgWeightInterval = 0
    /\ metaWeight = 0
    /\ confPc = "env"
    /\ FacadeIdle /\ SeedIdle /\ ThreadsIdle /\ OthersIdle

\* The configuration part of NewNode: newConf() and the local NodeMeta.
NewNodeConf ==
    /\ confPc = "env"
    /\ cfgWeightInterval' = WeightIntervalOf(weightEnv, weightIntervalEnv, defaultWeightInterval)
    /\ metaWeight' = NodeMetaWeight(weightEnv)
    /\ confPc' = "done"
    /\ UNCHANGED <<weightEnv, weightIntervalEnv, defaultWeightInterval>>
    /\ UNCHANGED <<facadeVars, ret, seedVars, threadVars, otherVars>>

ConfNext == NewNodeConf

ConfSpec == ConfInit /\ [][ConfNext]_vars

(***************************************************************************)
(* The timeouts of the configuration: newConf applied to every short value *)
(* of each timeout key.                                                    *)
(***************************************************************************)
DurationKeys ==
    {"GossipToTheDeadTime", "PushPullInterval", "DeadNodeReclaimTime", "ProbeInterval",
     "ProbeTimeout", "GossipInterval", "WeightInterval", "TCPTimeout"}

\* The default strings of the config package, as the specification documents
\* them.
DefaultGddMemTimeout(key) ==
    CASE key = "GossipToTheDeadTime" -> <<"3", "0", "s">>
      [] key = "PushPullInterval" -> <<"3", "0", "s">>
      [] key = "DeadNodeReclaimTime" -> <<"0", "s">>
      [] key = "ProbeInterval" -> <<"1", "s">>
      [] key = "ProbeTimeout" -> <<"5", "0", "0", "m", "s">>
      [] key = "GossipInterval" -> <<"2", "0", "0", "m", "s">>
      [] key = "TCPTimeout" -> <<"1", "0", "s">>

\* A newConf that reads an integer gossip interval in seconds, as it does the
\* other timeouts.
IntegerUnit_AllSeconds(key) == Second

\* The unit newConf multiplies an integer value by (node.go:161, 172, 183, 194,
\* 205, 224, 243, 255).
IntegerUnit(key) ==
    IF key \in {"GossipInterval", "WeightInterval"} THEN Millisecond ELSE Second

\* One timeout of newConf: the default, overwritten when the key is set to an
\* integer or, failing that, to a duration string (node.go:157-167 and the six
\* blocks like it).
TimeoutOf(key, env) ==
    LET dflt == ParseDuration(DefaultGddMemTimeout(key)).val
    IN  IF IsNotEmpty(env)
        THEN IF Atoi(env).ok THEN Atoi(env).val * IntegerUnit(key)
             ELSE IF ParseDuration(env).ok THEN ParseDuration(env).val
             ELSE dflt
        ELSE dflt

\* The field of the configuration newConf returns.
ConfDuration(key, env, wEnv, wiDflt) ==
    IF key = "WeightInterval" THEN WeightIntervalOf(wEnv, env, wiDflt)
    ELSE TimeoutOf(key, env)

DurInit ==
    /\ durKey \in DurationKeys
    /\ durEnv \in StringsUpTo(DurationAlphabet, MaxDurLen)
    /\ weightEnv \in IF durKey = "WeightInterval"
                     THEN StringsUpTo(WeightAlphabet, MaxWeightLen) ELSE {<<>>}
    /\ defaultWeightInterval \in IF durKey = "WeightInterval" THEN DefaultIntervals ELSE {0}
    /\ weightIntervalEnv = <<>>
    /\ cfgWeightInterval = 0
    /\ metaWeight = 0
    /\ confPc = "env"
    /\ cfgDuration = 0
    /\ durPc = "env"
    /\ FacadeIdle /\ SeedIdle /\ ThreadsIdle /\ MetaIdle /\ QueueIdle

\* newConf, as far as the field durKey goes.
NewConfDuration ==
    /\ durPc = "env"
    /\ cfgDuration' = ConfDuration(durKey, durEnv, weightEnv, defaultWeightInterval)
    /\ durPc' = "done"
    /\ UNCHANGED <<durKey, durEnv>>
    /\ UNCHANGED <<facadeVars, ret, seedVars, confVars, threadVars, metaVars, queueVars>>

DurNext == NewConfDuration

DurSpec == DurInit /\ [][DurNext]_vars

\* The default the specification documents for a timeout, in milliseconds.
DocumentedDefault(key) ==
    CASE key \in {"GossipToTheDeadTime", "PushPullInterval"} -> 30000
      [] key = "DeadNodeReclaimTime" -> 0
      [] key = "ProbeInterval" -> 1000
      [] key = "ProbeTimeout" -> 500
      [] key = "GossipInterval" -> 200
      [] key = "TCPTimeout" -> 10000
      [] key = "WeightInterval" -> defaultWeightInterval

\* What the configuration rule gives for a key: the integer times the key's
\* unit, else the parsed duration, else the default.
DurationRule(key, env) ==
    IF Atoi(env).ok
    THEN Atoi(env).val * (IF key \in {"GossipInterval", "WeightInterval"} THEN 1 ELSE 1000)
    ELSE IF ParseDuration(env).ok THEN ParseDuration(env).val
    ELSE DocumentedDefault(key)

\* C11 as stated: every timeout key, the weight interval included, ends up as
\* the integer times its unit, the parsed duration, or the default.
DurationsAsClaimed ==
    durPc = "done" => cfgDuration = DurationRule(durKey, durEnv)

\* C11: every timeout key ends up as the integer times its unit (milliseconds
\* for the gossip and weight intervals, seconds for the others), else as the
\* parsed duration, else as the documented default; the weight interval does so
\* only while no weight is pinned, and is 0 whenever a weight above 0 is pinned.
DurationsUnlessPinned ==
    durPc = "done" =>
        cfgDuration = IF durKey = "WeightInterval" /\ ConfiguredWeight(weightEnv) > 0
                      THEN 0
                      ELSE DurationRule(durKey, durEnv)

\* An integer gossip interval was read in milliseconds and an unparsable value
\* left the default in place.
DurationsWitness ==
    /\ durPc = "done"
    /\ \/ durKey = "GossipInterval" /\ durEnv = <<"5", "5">> /\ cfgDuration = 55
       \/ durKey = "ProbeTimeout" /\ durEnv = <<"5", "x">> /\ cfgDuration = 500

(***************************************************************************)
(* The helpers that read a node's Meta.  The Meta bytes are empty, not     *)
(* JSON at all, or a JSON document whose "_meta" object has each member    *)
(* absent, of the type nodeMeta declares, or of another type.              *)
(***************************************************************************)
ZeroMeta == [Service |-> <<>>, RouteRootPath |-> <<>>, Port |-> 0, Weight |-> 0]

\* json.Unmarshal into a string field: a member of another type leaves the
\* field at its zero value and is reported.
DecodeString(v) ==
    IF v.t = "str" THEN [ok |-> TRUE, val |-> v.s]
    ELSE [ok |-> v.t = "absent", val |-> <<>>]

\* json.Unmarshal into an int field.
DecodeInt(v) ==
    IF v.t = "num" THEN [ok |-> TRUE, val |-> v.n]
    ELSE [ok |-> v.t = "absent", val |-> 0]

\* json.Unmarshal(node.Meta, &mm): a text that is not JSON is rejected before
\* anything is stored; a member of the wrong type is reported after the other
\* members were stored.
Unmarshal(bytes) ==
    IF bytes.kind = "garbage" THEN [mm |-> ZeroMeta, err |-> TRUE]
    ELSE LET d == bytes.meta
         IN  [mm |-> [Service |-> DecodeString(d.service).val,
                      RouteRootPath |-> DecodeString(d.routeRootPath).val,
                      Port |-> DecodeInt(d.port).val,
                      Weight |-> DecodeInt(d.weight).val],
              err |-> ~(/\ DecodeString(d.service).ok
                        /\ DecodeString(d.routeRootPath).ok
                        /\ DecodeInt(d.port).ok
                        /\ DecodeInt(d.weight).ok)]

\* newMeta (node.go:102-110).
newMeta(node) ==
    IF node.Meta.kind # "empty" THEN Unmarshal(node.Meta)
    ELSE [mm |-> ZeroMeta, err |-> FALSE]

\* fmt.Sprintf("http://%s:%d%s", addr, port, path).
SprintfUrl(addr, port, path) ==
    <<"h", "t", "t", "p", ":", "/", "/">> \o addr \o <<":">> \o FormatInt(port) \o path

\* BaseUrl (node.go:428-437).
BaseUrl(node) ==
    IF newMeta(node).err THEN [done |-> TRUE, err |-> TRUE, str |-> <<>>, num |-> 0]
    ELSE [done |-> TRUE, err |-> FALSE,
          str |-> SprintfUrl(node.Addr, newMeta(node).mm.Port, newMeta(node).mm.RouteRootPath),
          num |-> 0]

\* MetaWeight (node.go:439-448).
MetaWeight(node) ==
    IF newMeta(node).err THEN [done |-> TRUE, err |-> TRUE, str |-> <<>>, num |-> 0]
    ELSE [done |-> TRUE, err |-> FALSE, str |-> <<>>, num |-> newMeta(node).mm.Weight]

\* SvcName (node.go:450-460).
SvcName(node) ==
    IF newMeta(node).err THEN [done |-> TRUE, err |-> FALSE, str |-> <<>>, num |-> 0]
    ELSE [done |-> TRUE, err |-> FALSE, str |-> newMeta(node).mm.Service, num |-> 0]

\* An Info that reports the node's name as its host.
InfoHost_Name(node) == node.Name

\* The Host of the NodeInfo (node.go:422).
InfoHost(node) == node.Addr

\* Info (node.go:397-426), without the uptime and the build fields.
Info(node) ==
    [done |-> TRUE,
     SvcName |-> newMeta(node).mm.Service,
     Hostname |-> node.Name,
     BaseUrl |-> BaseUrl(node).str,
     Status |-> IF node.State = "Suspect" THEN <<"s", "u", "s", "p", "e", "c", "t">>
                ELSE <<"u", "p">>,
     Host |-> InfoHost(node),
     SvcPort |-> newMeta(node).mm.Port,
     MemPort |-> node.Port]

MetaDocs ==
    [service : {JAbsent, JStr(<<"s">>), JNum(7)},
     routeRootPath : {JAbsent, JStr(<<"/", "a">>)},
     port : {JAbsent, JNum(80), JStr(<<"8", "0">>)},
     weight : {JAbsent, JNum(3)}]

MetaBytes ==
    {[kind |-> "empty", meta |-> NoDoc], [kind |-> "garbage", meta |-> NoDoc]}
        \cup {[kind |-> "json", meta |-> d] : d \in MetaDocs}

MetaInit ==
    /\ metaNode \in [Name : {<<"n">>}, Addr : {<<"h">>, <<"1", ".", "2">>}, Port : {7946},
                     State : {"Alive", "Suspect"}, Meta : MetaBytes]
    /\ baseUrlOut = NotCalled
    /\ metaWeightOut = NotCalled
    /\ svcNameOut = NotCalled
    /\ infoOut = NoInfo
    /\ FacadeIdle /\ SeedIdle /\ ConfIdle /\ ThreadsIdle /\ DurIdle /\ QueueIdle

CallBaseUrl ==
    /\ ~baseUrlOut.done
    /\ baseUrlOut' = BaseUrl(metaNode)
    /\ UNCHANGED <<metaNode, metaWeightOut, svcNameOut, infoOut>>
    /\ UNCHANGED <<facadeVars, ret, seedVars, confVars, threadVars, durVars, queueVars>>

CallMetaWeight ==
    /\ ~metaWeightOut.done
    /\ metaWeightOut' = MetaWeight(metaNode)
    /\ UNCHANGED <<metaNode, baseUrlOut, svcNameOut, infoOut>>
    /\ UNCHANGED <<facadeVars, ret, seedVars, confVars, threadVars, durVars, queueVars>>

CallSvcName ==
    /\ ~svcNameOut.done
    /\ svcNameOut' = SvcName(metaNode)
    /\ UNCHANGED <<metaNode, baseUrlOut, metaWeightOut, infoOut>>
    /\ UNCHANGED <<facadeVars, ret, seedVars, confVars, threadVars, durVars, queueVars>>

CallInfo ==
    /\ ~infoOut.done
    /\ infoOut' = Info(metaNode)
    /\ UNCHANGED <<metaNode, baseUrlOut, metaWeightOut, svcNameOut>>
    /\ UNCHANGED <<facadeVars, ret, seedVars, confVars, threadVars, durVars, queueVars>>

MetaNext == CallBaseUrl \/ CallMetaWeight \/ CallSvcName \/ CallInfo

MetaSpec == MetaInit /\ [][MetaNext]_vars

\* The Meta is empty, or a JSON document every member of which has the type
\* MergedMeta declares.
ValidMergedMeta(bytes) ==
    \/ bytes.kind = "empty"
    \/ /\ bytes.kind = "json"
       /\ bytes.meta.service.t \in {"absent", "str"}
       /\ bytes.meta.routeRootPath.t \in {"absent", "str"}
       /\ bytes.meta.port.t \in {"absent", "num"}
       /\ bytes.meta.weight.t \in {"absent", "num"}

\* The URL the advertised Meta stands for: http://{Addr}:{port}{routeRootPath}.
AdvertisedUrl(node) ==
    <<"h", "t", "t", "p", ":", "/", "/">> \o node.Addr \o <<":">>
        \o FormatInt(node.Meta.meta.port.n) \o node.Meta.meta.routeRootPath.s

\* C12: for a node whose Meta is empty or valid MergedMeta JSON, BaseUrl is
\* http://{Addr}:{meta.Port}{meta.RouteRootPath} and Info reports the same base
\* URL, Host = Addr and SvcPort = meta.Port; for a node whose Meta is not JSON,
\* BaseUrl and MetaWeight return an error with an empty or zero result, SvcName
\* returns "" and Info still returns, with an empty base URL.
MetaFidelity ==
    /\ ValidMergedMeta(metaNode.Meta) =>
        /\ baseUrlOut.done => ~baseUrlOut.err /\ baseUrlOut.str = AdvertisedUrl(metaNode)
        /\ infoOut.done =>
            /\ infoOut.BaseUrl = AdvertisedUrl(metaNode)
            /\ infoOut.Host = metaNode.Addr
            /\ infoOut.SvcPort = metaNode.Meta.meta.port.n
    /\ metaNode.Meta.kind = "garbage" =>
        /\ baseUrlOut.done => baseUrlOut.err /\ baseUrlOut.str = <<>>
        /\ metaWeightOut.done => metaWeightOut.err /\ metaWeightOut.num = 0
        /\ svcNameOut.done => svcNameOut.str = <<>>
        /\ infoOut.done => infoOut.BaseUrl = <<>>

\* BaseUrl and Info were both called on a node advertising port 80 and the
\* path /a, and on a node whose Meta is not JSON.
MetaFidelityWitness ==
    /\ baseUrlOut.done /\ infoOut.done /\ metaWeightOut.done /\ svcNameOut.done
    /\ \/ /\ metaNode.Meta.kind = "json"
          /\ metaNode.Meta.meta.port = JNum(80)
          /\ metaNode.Meta.meta.routeRootPath = JStr(<<"/", "a">>)
          /\ metaNode.Meta.meta.service.t # "num"
          /\ infoOut.BaseUrl = <<"h", "t", "t", "p", ":", "/", "/", "h", ":", "8", "0", "/", "a">>
       \/ /\ metaNode.Meta.kind = "garbage"
          /\ baseUrlOut.err

(***************************************************************************)
(* The broadcast queue.  NewNode builds one TransmitLimitedQueue per call  *)
(* (node.go:332-340), hands it to the delegate of the engine it creates    *)
(* and stores it in BroadcastQueue; queue q belongs to engine q.  The      *)
(* queue itself follows the contract of the specification: Enqueue         *)
(* invalidates by key, GetBroadcasts returns the least-sent items, counts  *)
(* the transmission and evicts an item whose count reaches                 *)
(* RetransmitMult * log10(NumNodes() + 1).  Queues do not touch each       *)
(* other, so the items of one of them are followed; which one is chosen    *)
(* at the start.                                                           *)
(***************************************************************************)
Keys == 1..NumKeys

RetransmitMults == {1, 4}
DefaultSuspicionMult == 4

\* The configuration newConf returns, as far as the queue goes.
Mconf == [RetransmitMult |-> retransmitMult, SuspicionMult |-> DefaultSuspicionMult]

\* Memberlist.NumMembers(): the members that are neither Dead nor Left.
NumMembers(tbl) == Len(Members(tbl))

\* The NumNodes callback of the queue (node.go:333-338); it reads the package
\* variable mlist, whichever engine the queue belongs to.
NumNodes == IF mlist = 0 THEN 0 ELSE NumMembers(nodes)

\* A queue built with the suspicion multiplier of the configuration.
QueueRetransmitMult_Suspicion(conf) == conf.SuspicionMult

\* The RetransmitMult the queue is built with (node.go:339).
QueueRetransmitMult(conf) == conf.RetransmitMult

\* count >= mult * log10(n + 1), in integers.
ReachesLimit(count, mult, n) == 10 ^ count >= (n + 1) ^ mult

Max(a, b) == IF a >= b THEN a ELSE b

\* The engine the followed queue belongs to is running.
OwnerRunning ==
    /\ followed \in 1..allocs
    /\ engines[followed].created
    /\ engines[followed].shutdowns = 0

\* Enqueue(item), by the engine's delegate or through BroadcastQueue: an item
\* with the same invalidation key is removed, the new one enters with transmit
\* count 0.  most records the largest NumNodes() seen when the item was fetched.
Enqueue(k) ==
    /\ ret = NoRet
    /\ followed \in 1..allocs
    /\ followed = BroadcastQueue \/ OwnerRunning
    /\ queue' = {i \in queue : i.key # k} \cup {[key |-> k, sent |-> 0, most |-> 0]}
    /\ UNCHANGED <<followed, retransmitMult, facadeVars, ret, seedVars, confVars,
                   threadVars, durVars, metaVars>>

\* The sets of items a fetch may return: some of the queue, least-sent first.
Fetches ==
    {S \in SUBSET queue :
        /\ S # {}
        /\ \A i \in S, j \in queue \ S : i.sent <= j.sent}

\* GetBroadcasts(overhead, limit) called by the running engine the queue
\* belongs to: the items of S are transmitted, their count is incremented, and
\* those whose count reaches the limit are evicted.
GetBroadcasts(S) ==
    /\ ret = NoRet
    /\ OwnerRunning
    /\ S \in Fetches
    /\ LET sentNow == {[key |-> i.key, sent |-> i.sent + 1, most |-> Max(i.most, NumNodes)] :
                          i \in S}
       IN  queue' = (queue \ S) \cup
                       {i \in sentNow :
                           ~ReachesLimit(i.sent, QueueRetransmitMult(Mconf), NumNodes)}
    /\ UNCHANGED <<followed, retransmitMult, facadeVars, ret, seedVars, confVars,
                   threadVars, durVars, metaVars>>

QueueInit ==
    /\ queue = {}
    /\ followed \in EngineIds
    /\ retransmitMult \in RetransmitMults
    /\ FacadeIdle /\ SeedIdle /\ ConfIdle /\ ThreadsIdle /\ DurIdle /\ MetaIdle

QueueNext ==
    \/ \E s \in ServiceEnvs, sd \in SeedEnvs, c \in BOOLEAN, j \in BOOLEAN : NewNode(s, sd, c, j)
    \/ Return
    \/ (ret = NoRet /\ \E n \in RemoteNames : EngineJoin(n) \/ EngineLeft(n))
    \/ \E k \in Keys : Enqueue(k)
    \/ \E S \in SUBSET queue : GetBroadcasts(S)

\* The queue while NewNode is called, again or not, and members come and go.
\* The handle becomes nil for a queue whose engine runs when a later NewNode
\* fails to create its engine.
QueueSpec == QueueInit /\ [][QueueNext]_vars

\* The least d with 10^d >= n: log10(n) rounded up.
CeilLog10(n) == CHOOSE d \in 0..n : 10 ^ d >= n /\ (d = 0 \/ 10 ^ (d - 1) < n)

\* Enqueue leaves exactly one item of the key, not yet transmitted.
EnqueueReplaces ==
    \A k \in Keys :
        Enqueue(k) => {i \in queue' : i.key = k} = {[key |-> k, sent |-> 0, most |-> 0]}

ShutdownIdempotent ==
    [][Shutdown =>
        /\ mlist' = 0
        /\ (mlist = 0 => UNCHANGED facadeVars)
        /\ \A e \in EngineIds : engines'[e].shutdowns <= 1]_vars

\* C4: AllNodes and LocalNode, called when the handle refers to no running
\* engine, report the state error (AllNodes its error, LocalNode its nil) and
\* return neither a member list nor a node.
NoRegistryGivesStateError ==
    [][((AllNodes \/ LocalNode) /\ ~Running) =>
        /\ ret'.err \in {"StateError", "nil"}
        /\ ret'.val = <<>>]_vars

\* C5: NewNode with no service name returns a ConfigError and creates no
\* engine; the handle and the queue variable keep their values.
NewNodeWithoutServiceHasNoEffect ==
    [][\A s \in ServiceEnvs, sd \in SeedEnvs, c \in BOOLEAN, j \in BOOLEAN :
        (IsEmpty(ServiceOf(s)) /\ NewNode(s, sd, c, j)) =>
            /\ ret'.err = "ConfigError"
            /\ mlist' = mlist
            /\ BroadcastQueue' = BroadcastQueue
            /\ engines' = engines
            /\ nodes' = nodes]_vars

NewNodeWithoutServiceWitness ==
    /\ ret.op = "NewNode"
    /\ ret.err = "ConfigError"
    /\ mlist # 0
    /\ BroadcastQueue # 0

\* C6: with a service name and an engine created, NewNode with an empty seed
\* list succeeds and leaves a running engine behind the handle; with a non-empty
\* seed list none of which can be joined it returns a JoinError and the engine
\* it created has been shut down.
JoinOutcomePolicy ==
    [][\A s \in ServiceEnvs, sd \in SeedEnvs, j \in BOOLEAN :
        (IsNotEmpty(ServiceOf(s)) /\ NewNode(s, sd, TRUE, j)) =>
            /\ Len(SeedListOf(sd)) = 0 =>
                 /\ ret'.err = "none"
                 /\ mlist' # 0
                 /\ ~engines[mlist'].created
                 /\ engines'[mlist'].created
                 /\ engines'[mlist'].shutdowns = 0
            /\ (Len(SeedListOf(sd)) # 0 /\ ~j) =>
                 /\ ret'.err = "JoinError"
                 /\ \E e \in EngineIds :
                      /\ ~engines[e].created
                      /\ engines'[e].created
                      /\ engines'[e].shutdowns >= 1]_vars

JoinOutcomeWitness ==
    /\ ret.op = "NewNode"
    /\ ret.err = "JoinError"
    /\ mlist # 0
    /\ engines[mlist].shutdowns = 1

\* C7: with a handle, AllNodes returns exactly the members that are neither
\* Dead nor Left, and no Name twice.
AllNodesExactlyLiveMembers ==
    [][(AllNodes /\ mlist # 0) =>
        /\ ret'.err = "none"
        /\ Range(ret'.val) =
             {nodes[i] : i \in {k \in DOMAIN nodes : nodes[k].state \in {"Alive", "Suspect"}}}
        /\ \A i, k \in DOMAIN ret'.val : ret'.val[i].name = ret'.val[k].name => i = k]_vars

AllNodesWitness ==
    /\ ret.op = "AllNodes"
    /\ ret.err = "none"
    /\ \E i \in DOMAIN nodes : DeadOrLeft(nodes[i])
    /\ \E i \in DOMAIN ret.val : ret.val[i].state = "Suspect"
    /\ \E i \in DOMAIN ret.val : ret.val[i].state = "Alive"
    /\ Len(ret.val) < Len(nodes)

\* C8: Leave keeps the handle and the engine behind it, reports no error
\* whatever the engine answered, and does nothing when there is no handle.
LeaveKeepsHandle ==
    [][\A o \in LeaveOutcomes : Leave(o) =>
        /\ mlist' = mlist
        /\ engines' = engines
        /\ BroadcastQueue' = BroadcastQueue
        /\ ret'.err = "none"
        /\ (mlist = 0 => UNCHANGED facadeVars)]_vars

LeaveWitness ==
    /\ ret.op = "Leave"
    /\ mlist # 0
    /\ Running
    /\ LocalNodeOf(nodes).state = "Left"

(***************************************************************************)
(* Properties of the configuration, checked under ConfSpec.                *)
(***************************************************************************)
\* C10: a MEM_WEIGHT that parses to an integer > 0 sets WeightInterval to 0
\* whatever MEM_WEIGHT_INTERVAL says, and is the local NodeMeta's weight
\* verbatim; with a weight of 0 or an unparseable one, WeightInterval is the
\* configured MEM_WEIGHT_INTERVAL, or the default when that is unset or
\* unparseable.
PinnedWeight ==
    confPc = "done" =>
        LET w == ToIntE(weightEnv)
            asInt == Atoi(weightIntervalEnv)
            asDuration == ParseDuration(weightIntervalEnv)
        IN  /\ (w.ok /\ w.val > 0) =>
                 /\ cfgWeightInterval = 0
                 /\ metaWeight = w.val
            /\ (~w.ok \/ w.val = 0) =>
                 cfgWeightInterval =
                     IF asInt.ok THEN asInt.val * Millisecond
                     ELSE IF asDuration.ok THEN asDuration.val
                     ELSE defaultWeightInterval

PinnedWeightWitness ==
    /\ confPc = "done"
    /\ ToIntE(weightEnv).ok
    /\ ToIntE(weightEnv).val > 0
    /\ ParseDuration(weightIntervalEnv).ok
    /\ ParseDuration(weightIntervalEnv).val > 0
    /\ defaultWeightInterval > 0
    /\ cfgWeightInterval = 0
    /\ metaWeight = 3

(***************************************************************************)
(* Properties of the facade under concurrent calls, checked under ConcSpec.*)
(***************************************************************************)
\* C1: RegisterServiceProvider is atomic with respect to membership events: a
\* registered service provider has been told of every node that is a member,
\* and of no node that is not, so no join or leave between the loop over
\* Members() and the append is missed.
RegistrationAtomic ==
    \A sp \in Range(ServiceProviders) :
        Running => spNodes[sp] = NamesOf(Members(nodes))

\* C2: no facade function that has passed its nil check goes on to call a
\* method through a handle that has been cleared meanwhile.
NoNilHandleDereference == ~nilDeref

(***************************************************************************)
(* The handle after a failed NewNode, and the engines behind the handle.   *)
(***************************************************************************)
\* C15: a NewNode that returns an error (no service name, engine creation
\* failed, join failed) leaves no handle that this call created: the handle is
\* nil or the one held before the call.
FailedNewNodeInstallsNoHandle ==
    [][\A s \in ServiceEnvs, sd \in SeedEnvs, c \in BOOLEAN, j \in BOOLEAN :
        (NewNode(s, sd, c, j) /\ ret'.err # "none") =>
            (mlist' = 0 \/ mlist' = mlist)]_vars

\* C16: after any sequence of NewNode, Leave and Shutdown, an engine that is
\* running is the one the handle refers to (so at most one runs, and none runs
\* unreachable), and the queue variable designates the queue of the engine the
\* handle refers to.
OneEngineBehindHandle ==
    /\ \A e \in EngineIds : (engines[e].created /\ engines[e].shutdowns = 0) => mlist = e
    /\ mlist # 0 => BroadcastQueue = mlist

(***************************************************************************)
(* The events a registered service provider is handed, checked under       *)
(* ConcSpec.                                                               *)
(***************************************************************************)
\* C14: the events handed to a registered service provider follow each node's
\* transitions, none twice, none out of order, one per observed edge: a join
\* is delivered for a node the provider does not hold, and a leave for a node
\* whose join it was given.
EventExactness ==
    [][\A n \in RemoteNames, sp \in Providers :
        sp \in Range(ServiceProviders) =>
            /\ EngineJoin(n) => n \notin spNodes[sp]
            /\ (EngineDead(n) \/ EngineLeft(n)) => n \in spNodes[sp]]_vars
====
